---- MODULE Spec2Model ----
(***************************************************************************)
(* Dependency resolution and scenario orchestration of dact-pipeline:      *)
(* dact/dependency_resolver.py (scanner, graph builder, leveler),          *)
(* dact/runner.py run_case and dact/pytest_plugin.py TestCaseItem.runtest  *)
(* (the execution loop with its failure policy).                           *)
(* runner.run_case_file (the loop over the cases of a case file) and       *)
(* dact/tool_registry.py ToolRegistry (registration, availability caches). *)
(***************************************************************************)
EXTENDS Integers, Sequences, FiniteSets, TLC

VARIABLES scenario, case, impl, pc, graph, errors,
          run_context, cur, started, results, summary, outcome, work_dir,
          registry, call, case_file, file_results

vars == <<scenario, case, impl, pc, graph, errors,
          run_context, cur, started, results, summary, outcome, work_dir,
                   registry, call, case_file, file_results>>

(***************************************************************************)
(* Input domains.                                                          *)
(***************************************************************************)
\* Step names of the scenarios, in the insertion order of the step list.
StepNames == <<"s1", "s2", "s3">>
\* A name that is no step of any scenario.
Ghost == "ghost"
\* Most dependency declarations (depends_on entries and template-bearing
\* parameters) of a scenario handed to the resolver alone.
MaxRefs == 3
\* Most dependency declarations of a scenario that is run.
MaxRunRefs == 2

None == "none"

Range(s) == {s[i] : i \in DOMAIN s}

Targets == Range(StepNames) \cup {Ghost}

\* A declaration: step number, where the reference stands, the name referenced.
\*   explicit: an entry of depends_on
\*   str     : a top-level string parameter "{{ steps.<ref>.outputs.v }}"
\*   nested  : the same string inside a nested map or a list parameter
Kinds == {"explicit", "str", "nested"}
Decls == [step : DOMAIN StepNames, kind : Kinds, ref : Targets]

RECURSIVE SubsetsUpTo(_, _)
SubsetsUpTo(S, k) ==
    IF k = 0 THEN {{}}
    ELSE LET prev == SubsetsUpTo(S, k - 1)
         IN  prev \cup {p \cup {d} : p \in prev, d \in S}

\* The orders in which the steps can be listed in the scenario file.
ListOrders ==
    {o \in [DOMAIN StepNames -> DOMAIN StepNames] :
        \A i, j \in DOMAIN StepNames : i # j => o[i] # o[j]}
IdOrder == [i \in DOMAIN StepNames |-> i]

\* models.Step records of a scenario built from a set of declarations, listed
\* in the order ord.
MkStepsIn(D, cof, badtool, ord) ==
    [i \in DOMAIN StepNames |->
        [name |-> StepNames[ord[i]],
         tool |-> IF StepNames[ord[i]] = badtool THEN "nosuch" ELSE "echo",
         depends_on |-> {d.ref : d \in {e \in D : e.step = ord[i] /\ e.kind = "explicit"}},
         params |-> {[kind |-> d.kind, ref |-> d.ref] :
                        d \in {e \in D : e.step = ord[i] /\ e.kind # "explicit"}},
         continue_on_failure |-> StepNames[ord[i]] \in cof]]
MkSteps(D, cof, badtool) == MkStepsIn(D, cof, badtool, IdOrder)

\* The tools loaded from the tools directory.
tools == {"echo"}

(***************************************************************************)
(* dependency_resolver.py                                                  *)
(***************************************************************************)
\* A deterministic enumeration of a finite set (iteration order of a set).
RECURSIVE SetToSeq(_)
SetToSeq(S) ==
    IF S = {} THEN <<>>
    ELSE LET x == CHOOSE y \in S : TRUE IN <<x>> \o SetToSeq(S \ {x})

\* _extract_template_dependencies: only the top-level values of step.params
\* that are strings are searched for "{{ steps.<name>." .
ExtractTemplateDependenciesNone(step) == {}
ExtractTemplateDependencies(step) ==
    {p.ref : p \in {q \in step.params : q.kind = "str"}}

\* all_deps = list(set(explicit_deps + implicit_deps))
AllDeps(step) == step.depends_on \cup ExtractTemplateDependencies(step)

\* Keys of the nodes dict, in insertion order (first occurrence of a name).
RECURSIVE NodeKeysFrom(_, _, _)
NodeKeysFrom(steps, i, acc) ==
    IF i > Len(steps) THEN acc
    ELSE NodeKeysFrom(steps, i + 1,
            IF steps[i].name \in Range(acc) THEN acc ELSE Append(acc, steps[i].name))
NodeKeys(steps) == NodeKeysFrom(steps, 1, <<>>)

\* nodes[step.name] = DependencyNode(...): a later step of the same name
\* replaces the node of an earlier one.
NodeDeps(steps) ==
    [n \in Range(NodeKeys(steps)) |->
        LET last == CHOOSE i \in DOMAIN steps :
                        /\ steps[i].name = n
                        /\ \A j \in DOMAIN steps : steps[j].name = n => j <= i
        IN  AllDeps(steps[last])]

\* edges.append((dep, step.name)) for every step in order, every dep of it.
RECURSIVE EdgesFrom(_, _)
EdgesFrom(steps, i) ==
    IF i > Len(steps) THEN <<>>
    ELSE LET ds == SetToSeq(AllDeps(steps[i]))
         IN  [k \in DOMAIN ds |-> <<ds[k], steps[i].name>>] \o EdgesFrom(steps, i + 1)

\* ready_steps: the remaining keys, in order, whose remaining deps are empty.
ReadyStepsIgnoringDeps(keys, deps) == keys
ReadyStepsFirstOnly(keys, deps) ==
    LET r == SelectSeq(keys, LAMBDA n : deps[n] = {}) IN IF r = <<>> THEN r ELSE <<r[1]>>
ReadyStepsReversed(keys, deps) ==
    LET r == SelectSeq(keys, LAMBDA n : deps[n] = {}) IN [k \in DOMAIN r |-> r[Len(r) + 1 - k]]
ReadySteps(keys, deps) == SelectSeq(keys, LAMBDA n : deps[n] = {})

\* execution_order.append(ready_steps)
AppendLevelOverwrite(order, ready) == <<ready>>
AppendLevel(order, ready) == Append(order, ready)

\* remaining_steps = list(remaining_deps.keys()) of the circular error.
RemainingStepsAll(keys, allkeys) == allkeys
RemainingSteps(keys, allkeys) == keys

\* for step_name in ready_steps: del remaining_deps[step_name]
DropReady(keys, ready) == SelectSeq(keys, LAMBDA n : n \notin Range(ready))

\* for deps in remaining_deps.values(): deps -= processed
PruneDepsNever(deps, keys, processed) == [n \in Range(keys) |-> deps[n]]
PruneDeps(deps, keys, processed) == [n \in Range(keys) |-> deps[n] \ processed]

\* _calculate_execution_order: the while loop.
RECURSIVE LevelLoop(_, _, _, _, _)
LevelLoop(keys, deps, order, processed, allkeys) ==
    IF keys = <<>> THEN [ok |-> TRUE, execution_order |-> order, remaining |-> <<>>,
                         leveled |-> order]
    ELSE LET ready == ReadySteps(keys, deps) IN
         IF ready = <<>>
         THEN [ok |-> FALSE, execution_order |-> <<>>,
               remaining |-> RemainingSteps(keys, allkeys), leveled |-> order]
         ELSE LET processed2 == processed \cup Range(ready)
                  keys2 == DropReady(keys, ready)
                  deps2 == PruneDeps(deps, keys2, processed2)
              IN  LevelLoop(keys2, deps2, AppendLevel(order, ready), processed2, allkeys)

CalculateExecutionOrder(keys, deps) == LevelLoop(keys, deps, <<>>, {}, keys)

\* extract_dependencies: the graph, or the ValueError of the leveler.
ExtractDependencies(steps) ==
    LET keys == NodeKeys(steps)
        deps == NodeDeps(steps)
        lv   == CalculateExecutionOrder(keys, deps)
    IN  [ok |-> lv.ok,
         nodes |-> deps,
         keys |-> keys,
         edges |-> EdgesFrom(steps, 1),
         execution_order |-> lv.execution_order,
         leveled |-> lv.leveled,
         error |-> IF lv.ok THEN [kind |-> None, steps |-> {}]
                   ELSE [kind |-> "circular", steps |-> Range(lv.remaining)]]

\* validate_dependencies: the messages "Step 'x' depends on non-existent
\* step 'd'" and, only when there is none, the leveler's error message.
StepNameSet(steps) == {steps[i].name : i \in DOMAIN steps}

MissingErrors(steps) ==
    UNION {{[kind |-> "undeclared", step |-> steps[i].name, dep |-> d, steps |-> {}] :
               d \in {x \in steps[i].depends_on \cup ExtractTemplateDependencies(steps[i]) :
                          x \notin StepNameSet(steps)}} :
           i \in DOMAIN steps}

ValidateDependencies(steps) ==
    LET missing == MissingErrors(steps)
    IN  IF missing # {} THEN missing
        ELSE LET g == ExtractDependencies(steps)
             IN  IF g.ok THEN {}
                 ELSE {[kind |-> "circular", step |-> None, dep |-> None,
                        steps |-> g.error.steps]}

(***************************************************************************)
(* The resolver called on its own: extract_dependencies (as the graph     *)
(* queries and the diagram generators call it) and validate_dependencies.  *)
(***************************************************************************)
EmptyMap == [x \in {} |-> None]
NoGraph == [ok |-> FALSE, nodes |-> EmptyMap, keys |-> <<>>, edges |-> <<>>,
            execution_order |-> <<>>, leveled |-> <<>>, error |-> [kind |-> None, steps |-> {}]]
NoOutcome == [kind |-> None, success |-> FALSE, reason |-> None, step |-> None]
NoSummary == [steps_count |-> 0, validation_results |-> <<>>, errors |-> <<>>]

\* A ToolRegistry after __init__, and no call made on it yet.
NoRegistry == [tools |-> EmptyMap, real_tool_adapters |-> EmptyMap,
               tool_availability_cache |-> EmptyMap, cached_availability |-> EmptyMap]
NoCall == [op |-> None]
\* No case file loaded.
NoCaseFile == [cases |-> <<>>]

\* The parts of the state a specification does not use.
InitIdle ==
    /\ registry = NoRegistry
    /\ call = NoCall
    /\ case_file = NoCaseFile
    /\ file_results = <<>>

InitRest ==
    /\ InitIdle
    /\ graph = NoGraph
    /\ errors = {}
    /\ run_context = [steps |-> EmptyMap]
    /\ cur = [l |-> 0, i |-> 0]
    /\ started = <<>>
    /\ results = <<>>
    /\ summary = NoSummary
    /\ outcome = NoOutcome

InitResolve ==
    /\ \E D \in SubsetsUpTo(Decls, MaxRefs) : \E ord \in ListOrders :
          scenario = [steps |-> MkStepsIn(D, {}, None, ord)]
    /\ case = [validation |-> FALSE, steps_key |-> FALSE]
    /\ impl = "resolver"
    /\ pc = "loaded"
    /\ work_dir = [before |-> "absent", now |-> "absent"]
    /\ InitRest

DoExtract ==
    /\ pc \in {"loaded", "validated"}
    /\ graph' = ExtractDependencies(scenario.steps)
    /\ pc' = IF graph'.ok THEN "built" ELSE "build_raised"
    /\ UNCHANGED <<scenario, case, impl, errors, run_context, cur, started,
                   results, summary, outcome, work_dir,
                   registry, call, case_file, file_results>>

DoValidate ==
    /\ pc = "loaded"
    /\ errors' = ValidateDependencies(scenario.steps)
    /\ pc' = "validated"
    /\ UNCHANGED <<scenario, case, impl, graph, run_context, cur, started,
                   results, summary, outcome, work_dir,
                   registry, call, case_file, file_results>>

NextResolve == DoExtract \/ DoValidate

SpecResolve == InitResolve /\ [][NextResolve]_vars

(***************************************************************************)
(* runner.run_case and pytest_plugin.TestCaseItem.runtest, scenario mode.  *)
(***************************************************************************)
\* The case's output directory dact_outputs/<case name> before a run: there,
\* with the files of an earlier run of the case.
WorkDirStates == {"stale"}

\* A step list in which the last record carries the name of the first: the
\* models put no constraint on the names of a scenario's steps.
WithDuplicate(steps) == [steps EXCEPT ![Len(steps)].name = steps[1].name]

InitRun ==
    /\ case \in [validation : BOOLEAN, steps_key : BOOLEAN]
    /\ impl \in {"runner", "plugin"}
    /\ \E D \in SubsetsUpTo(Decls, MaxRunRefs) :
       \E cof \in SUBSET Range(StepNames) :
       \E bad \in {None, StepNames[2]} :
       \E dup \in BOOLEAN :
           /\ dup => /\ bad = None
                     /\ StepNames[Len(StepNames)] \notin cof
                     /\ case = [validation |-> FALSE, steps_key |-> FALSE]
           /\ scenario = [steps |-> IF dup THEN WithDuplicate(MkSteps(D, cof, bad))
                                    ELSE MkSteps(D, cof, bad)]
    \* runtest discards a "steps" key of the parameters (it sets "steps"
    \* last), so only cases run by run_case are drawn with one.
    /\ case.steps_key => impl = "runner"
    /\ pc = "pending"
    /\ \E d \in WorkDirStates : work_dir = [before |-> d, now |-> d]
    /\ InitRest

\* step = next((s for s in scenario.steps if s.name == step_name), None)
FindStep(steps, n) ==
    steps[CHOOSE i \in DOMAIN steps :
              /\ steps[i].name = n
              /\ \A j \in DOMAIN steps : steps[j].name = n => i <= j]

\* How a run hands its result to the caller: run_case returns a
\* CaseRunResult; runtest returns normally (passed) or calls pytest.fail.
Result(success, reason, step) ==
    [kind |-> IF impl = "runner" THEN "returned"
              ELSE IF success THEN "passed" ELSE "failed",
     success |-> success, reason |-> reason, step |-> step]
\* An exception that leaves run_case / runtest uncaught.
Raised(reason, step) ==
    [kind |-> "exception", success |-> FALSE, reason |-> reason, step |-> step]

\* The context slots steps.<name> a rendering of the step's parameters
\* reads: _render_parameters renders top-level strings and recurses into
\* nested dicts and lists.
RenderReads(step) == {p.ref : p \in step.params}

\* A template reading steps.X.outputs.v renders when steps.X is in the
\* context; jinja2 raises UndefinedError on an attribute of an undefined.
RenderOk(step, ctx) == RenderReads(step) \subseteq DOMAIN ctx.steps

\* run_context["steps"][step.name] = {"outputs": result["outputs"]}
CommitOnSuccess(ctx, n, returncode) ==
    IF returncode # 0 THEN ctx
    ELSE [ctx EXCEPT !.steps = [k \in DOMAIN ctx.steps \cup {n} |->
                                   IF k = n THEN [outputs |-> n] ELSE ctx.steps[k]]]
Commit(ctx, n, returncode) ==
    [ctx EXCEPT !.steps = [k \in DOMAIN ctx.steps \cup {n} |->
                              IF k = n THEN [outputs |-> n] ELSE ctx.steps[k]]]

\* result["returncode"] != 0 and not step.continue_on_failure
AbortsNever(step, returncode) == FALSE
AbortsInverted(step, returncode) == returncode # 0 /\ step.continue_on_failure
AbortsAlways(step, returncode) == returncode # 0
Aborts(step, returncode) == returncode # 0 /\ ~step.continue_on_failure

\* The position of the two nested for loops over graph.execution_order.
CurName(order, c) == order[c.l][c.i]
HasNextLevelOnly(order, c) == c.l < Len(order)
HasNext(order, c) == c.i < Len(order[c.l]) \/ c.l < Len(order)
NextCurLeaveLevel(order, c) ==
    IF c.l < Len(order) THEN [l |-> c.l + 1, i |-> 1]
    ELSE [l |-> c.l, i |-> c.i + 1]
NextCur(order, c) ==
    IF c.i < Len(order[c.l]) THEN [l |-> c.l, i |-> c.i + 1]
    ELSE [l |-> c.l + 1, i |-> 1]

\* The outcomes of Executor(...).execute(...): a result with returncode 0,
\* a result with another returncode, or an exception (subprocess timeout,
\* post_exec resolution error, call error).
\* "invalid" is a result with returncode 0 whose validation.success is
\* false; "timeout" is subprocess.TimeoutExpired leaving execute.
ExecOutcomes == {"ok", "invalid", "fail", "timeout", "raise"}

\* The value a "steps" key of scenario.default_params or case.params
\* brings: a map that already has an entry under the first step's name.
SeedMap == [k \in {StepNames[1]} |-> [outputs |-> "params"]]

\* run_case: run_context = {"case": ..., "steps": {}} and then
\* update(default_params), update(case.params), which replace a "steps"
\* key; runtest: run_context = {**merged_context, "steps": {}}.
InitialContext(im, c) ==
    IF im = "runner" /\ c.steps_key THEN [steps |-> SeedMap]
    ELSE [steps |-> EmptyMap]

\* Entry of run_case / runtest: the output directory is removed if it is
\* there and created anew; tools and scenarios are loaded.
EnterRun ==
    /\ pc = "pending"
    /\ work_dir' = [work_dir EXCEPT !.now = "fresh"]
    /\ pc' = "entered"
    /\ UNCHANGED <<scenario, case, impl, graph, errors, run_context, cur,
                   started, results, summary, outcome,
                   registry, call, case_file, file_results>>

\* validate_dependencies, extract_dependencies, the initial run context.
BeginRun ==
    /\ pc = "entered"
    /\ LET errs == ValidateDependencies(scenario.steps) IN
       IF errs # {}
       THEN /\ errors' = errs
            /\ outcome' = Result(FALSE, "dependency", None)
            /\ pc' = "done"
            /\ UNCHANGED <<graph, run_context, cur>>
       ELSE /\ errors' = errs
            /\ graph' = ExtractDependencies(scenario.steps)
            /\ run_context' = InitialContext(impl, case)
            /\ cur' = [l |-> 1, i |-> 1]
            /\ pc' = "running"
            /\ UNCHANGED outcome
    /\ UNCHANGED <<scenario, case, impl, started, results, summary, work_dir,
                   registry, call, case_file, file_results>>

\* One iteration of the inner loop up to the executor call: step lookup,
\* step directory, tool lookup, parameter assembly and rendering.
StartStep ==
    /\ pc = "running"
    /\ LET n == CurName(graph.execution_order, cur)
           step == FindStep(scenario.steps, n)
       IN  /\ started' = Append(started, n)
           /\ IF step.tool \notin tools
              THEN /\ outcome' = Result(FALSE, "tool_not_found", n)
                   /\ pc' = "done"
              ELSE IF ~RenderOk(step, run_context)
              THEN /\ outcome' = IF impl = "runner" THEN Raised("render", n)
                                 ELSE Result(FALSE, "render", n)
                   /\ pc' = "done"
              ELSE /\ pc' = "executing"
                   /\ UNCHANGED outcome
    /\ UNCHANGED <<scenario, case, impl, graph, errors, run_context, cur,
                   results, summary, work_dir,
                   registry, call, case_file, file_results>>

\* The executor call returns or raises; the commit of the outputs, the
\* failure check, and either the next iteration or the end of the run.
FinishStep ==
    /\ pc = "executing"
    /\ \E res \in ExecOutcomes :
       LET n == CurName(graph.execution_order, cur)
           step == FindStep(scenario.steps, n)
           rc == IF res \in {"ok", "invalid"} THEN 0 ELSE 1
       IN  IF res \in {"raise", "timeout"}
           THEN /\ outcome' = Raised(IF res = "timeout" THEN "timeout" ELSE "executor", n)
                /\ pc' = "done"
                /\ UNCHANGED <<run_context, results, summary, cur>>
           ELSE /\ results' = Append(results, [step |-> n, returncode |-> rc,
                                                 valid |-> res = "ok"])
                /\ run_context' = Commit(run_context, n, rc)
                /\ summary' =
                      IF impl = "plugin"
                      THEN [steps_count |-> summary.steps_count + 1,
                            validation_results |-> Append(summary.validation_results, n),
                            errors |-> IF rc # 0 THEN Append(summary.errors, n)
                                       ELSE summary.errors]
                      ELSE summary
                /\ IF Aborts(step, rc)
                   THEN /\ outcome' = Result(FALSE, "step_failed", n)
                        /\ pc' = "done"
                        /\ UNCHANGED cur
                   ELSE IF HasNext(graph.execution_order, cur)
                   THEN /\ cur' = NextCur(graph.execution_order, cur)
                        /\ pc' = "running"
                        /\ UNCHANGED outcome
                   ELSE /\ pc' = "done"
                        /\ UNCHANGED cur
                        /\ IF case.validation
                           THEN \E valid \in BOOLEAN :
                                  outcome' = Result(valid,
                                      IF valid THEN None ELSE "case_validation", None)
                           ELSE outcome' = Result(TRUE, None, None)
    /\ UNCHANGED <<scenario, case, impl, graph, errors, started, work_dir,
                   registry, call, case_file, file_results>>

Next == EnterRun \/ BeginRun \/ StartStep \/ FinishStep

Spec == InitRun /\ [][Next]_vars

(***************************************************************************)
(* Vocabulary of the properties.                                           *)
(***************************************************************************)
Steps == scenario.steps
StepOf(n) == FindStep(Steps, n)
Names == StepNameSet(Steps)

\* Names occurring in the levels of an order.
Leveled(order) == UNION {Range(order[l]) : l \in DOMAIN order}
Occurrences(order, n) ==
    {<<l, i>> \in (DOMAIN order) \X (1 .. Len(Steps)) :
        i \in DOMAIN order[l] /\ order[l][i] = n}
LevelIndex(order, n) == CHOOSE l \in DOMAIN order : n \in Range(order[l])

\* Every name a step's parameter tree references, at any depth.
TreeRefs(step) == {p.ref : p \in step.params}

\* The dependencies a step name declares: the depends_on entries and the
\* names in top-level string templates of the steps of that name.
DeclaredDeps(n) ==
    UNION {Steps[i].depends_on \cup {p.ref : p \in {q \in Steps[i].params : q.kind = "str"}} :
              i \in {j \in DOMAIN Steps : Steps[j].name = n}}

RECURSIVE Grow(_, _)
Grow(S, k) ==
    IF k = 0 THEN S
    ELSE Grow(S \cup UNION {DeclaredDeps(m) : m \in S}, k - 1)
\* Every name n depends on, directly or through other steps.
Ancestors(n) == Grow(DeclaredDeps(n), Cardinality(Targets))

OnCycle(n) == n \in Ancestors(n)
HasCycle == \E n \in Names : OnCycle(n)
AllDeclared == \A n \in Names : DeclaredDeps(n) \subseteq Names
\* The steps on a cycle and the steps that depend, directly or not, on one.
Blocked == {n \in Names : \E m \in Ancestors(n) \cup {n} : OnCycle(m)}

ExtractReturned == pc = "built"
ExtractRaised == pc = "build_raised"
ExtractFinished == ExtractReturned \/ ExtractRaised

(***************************************************************************)
(* Properties of the resolver.                                             *)
(***************************************************************************)
\* C1: when every dependency is a declared step and the graph is acyclic,
\* extract_dependencies returns an execution_order whose levels hold every
\* step name exactly once (pairwise disjoint, union = all step names).
C1_LevelsPartition ==
    (ExtractFinished /\ AllDeclared /\ ~HasCycle) =>
        /\ ExtractReturned
        /\ Leveled(graph.execution_order) = Names
        /\ \A n \in Names : Cardinality(Occurrences(graph.execution_order, n)) = 1

C1_Witness ==
    /\ ExtractReturned
    /\ Len(graph.execution_order) = 2
    /\ \E l \in DOMAIN graph.execution_order : Len(graph.execution_order[l]) = 2

\* C2: in a returned execution_order every edge (a, b) of the graph, from
\* depends_on or from a scanned template reference, has a's level index
\* strictly below b's.
C2_EdgesAscend ==
    ExtractReturned =>
        \A k \in DOMAIN graph.edges :
            LET a == graph.edges[k][1]
                b == graph.edges[k][2]
            IN  /\ a \in Leveled(graph.execution_order)
                /\ b \in Leveled(graph.execution_order)
                /\ LevelIndex(graph.execution_order, a) < LevelIndex(graph.execution_order, b)

C2_Witness ==
    /\ ExtractReturned
    /\ \E i, j \in DOMAIN Steps :
          /\ i # j
          /\ Steps[i].depends_on # {}
          /\ \E p \in Steps[j].params : p.kind = "str"
    /\ Len(graph.execution_order) = 3

\* C3: a step S whose parameter tree references steps.X.outputs.y at any
\* depth has X among its dependencies and is levelled strictly after X.
C3_AnyDepthReference ==
    ExtractReturned =>
        \A i \in DOMAIN Steps : \A x \in TreeRefs(Steps[i]) :
            /\ x \in graph.nodes[Steps[i].name]
            /\ x \in Leveled(graph.execution_order)
            /\ LevelIndex(graph.execution_order, x)
                  < LevelIndex(graph.execution_order, Steps[i].name)

\* C4: with a cycle in the graph extract_dependencies never returns; it
\* raises the circular-dependency error, whose step set is exactly the
\* names not levelled when progress stopped; when every dependency is
\* declared these are the steps on a cycle and the steps blocked by one.
\* validate_dependencies reports the same set.
C4_CycleReported ==
    /\ (ExtractFinished /\ HasCycle) =>
          /\ ExtractRaised
          /\ graph.error.kind = "circular"
          /\ graph.error.steps = Names \ Leveled(graph.leveled)
          /\ \A n \in Names : OnCycle(n) => n \in graph.error.steps
          /\ AllDeclared => graph.error.steps = Blocked
    /\ (pc = "validated" /\ HasCycle /\ AllDeclared) =>
          errors = {[kind |-> "circular", step |-> None, dep |-> None, steps |-> Blocked]}

C4_Witness ==
    /\ ExtractRaised
    /\ AllDeclared
    /\ "s1" \in DeclaredDeps("s2") /\ "s2" \in DeclaredDeps("s1")
    /\ graph.error.steps = {"s1", "s2"}
    /\ graph.leveled = <<(<<"s3">>)>>

\* C5: a step list naming a dependency that is no step of the list is
\* rejected with an undeclared-dependency error naming step and target,
\* by validate_dependencies and by extract_dependencies alike, and never
\* with the circular-dependency error.
C5_UndeclaredReported ==
    ~AllDeclared =>
        /\ ~ExtractReturned
        /\ ExtractRaised => graph.error.kind = "undeclared"
        /\ pc = "validated" =>
              /\ \A e \in errors : e.kind = "undeclared"
              /\ \A n \in Names : \A d \in DeclaredDeps(n) \ Names :
                    \E e \in errors : e.step = n /\ e.dep = d

(***************************************************************************)
(* Properties of the execution loop.                                       *)
(***************************************************************************)
Order == graph.execution_order
LevelOf(n) == LevelIndex(Order, n)
Committed == DOMAIN run_context.steps
Cof(n) == StepOf(n).continue_on_failure
Started == Range(started)
\* The results the executor returned with a failing status.
FailedResults == {results[k] : k \in {j \in DOMAIN results : results[j].returncode # 0}}
\* The run handed an outcome to its caller (no uncaught exception).
OutcomeGiven == pc = "done" /\ outcome.kind \in {"returned", "passed", "failed"}

\* C6: once a step with continue_on_failure = false has a failing result,
\* the run is over: nothing of a later level was or will be started, the
\* outcome has success = false and names that step as the failed one.
C6_AbortOnFailure ==
    \A r \in FailedResults : ~Cof(r.step) =>
        /\ pc = "done"
        /\ outcome.kind \in {"returned", "failed"}
        /\ outcome.success = FALSE
        /\ outcome.reason = "step_failed"
        /\ outcome.step = r.step
        /\ \A t \in Started : LevelOf(t) <= LevelOf(r.step)

C6_Witness ==
    /\ pc = "done"
    /\ outcome.reason = "step_failed"
    /\ \E r \in FailedResults : r.step = outcome.step /\ ~Cof(r.step)
    /\ \E t \in Names : LevelOf(t) > LevelOf(outcome.step) /\ t \notin Started

\* C7: a failing step with continue_on_failure = true does not abort the
\* run: its outputs are committed under its name, the outcome never names
\* it as the failed step, and when the run is over every step of every
\* later level has been started unless the run ended at another step.
C7_ContinueOnFailure ==
    \A r \in FailedResults : Cof(r.step) =>
        /\ r.step \in Committed
        /\ run_context.steps[r.step] = [outputs |-> r.step]
        /\ ~(outcome.reason = "step_failed" /\ outcome.step = r.step)
        /\ pc = "done" =>
              \/ outcome.step \in Names \ {r.step}
              \/ \A t \in Names : LevelOf(t) > LevelOf(r.step) => t \in Started

C7_Witness ==
    /\ pc = "done"
    /\ outcome.success
    /\ \E r \in FailedResults :
          /\ Cof(r.step)
          /\ r.step \in Committed
          /\ \E t \in Started : LevelOf(t) > LevelOf(r.step)

\* C8: when a step has started (its parameters are about to be rendered),
\* every step of every earlier level has returned from the executor and
\* its outputs are committed to the context.
C8_LevelGate ==
    pc \in {"running", "executing", "done"} =>
        \A t \in Started : \A s \in Names :
            LevelOf(s) < LevelOf(t) =>
                /\ s \in Committed
                /\ \E k \in DOMAIN results : results[k].step = s

C8_Witness ==
    /\ pc = "executing"
    /\ \E t \in Started : LevelOf(t) = 2 /\ t \notin Committed
    /\ \E s, u \in Committed : s # u /\ LevelOf(s) = 1 /\ LevelOf(u) = 1

\* C9: for a case without case-level validations whose steps all have
\* their tool, the CaseRunResult run_case returns once the levels are
\* exhausted or the run is aborted has success = true exactly when no step
\* with continue_on_failure = false returned a failing status.
C9_SuccessIff ==
    ( /\ impl = "runner"
      /\ OutcomeGiven
      /\ outcome.reason # "dependency"
      /\ ~case.validation
      /\ \A n \in Names : StepOf(n).tool \in tools )
    => (outcome.success <=> ~\E r \in FailedResults : ~Cof(r.step))

C9_Witness ==
    /\ impl = "runner"
    /\ OutcomeGiven
    /\ ~case.validation
    /\ outcome.success
    /\ \E r \in FailedResults : Cof(r.step)
    /\ \A n \in Names : StepOf(n).tool \in tools

\* C10: every step result the executor produced is retained in the outcome
\* handed to the caller: CaseRunResult.errors names the step (run_case), or
\* the execution summary holds its entry and, when it failed, its error
\* (runtest).
Retained(r) ==
    \/ /\ impl = "plugin"
       /\ r.step \in Range(summary.validation_results)
       /\ r.returncode # 0 => r.step \in Range(summary.errors)
    \/ /\ impl = "runner"
       /\ outcome.reason = "step_failed"
       /\ outcome.step = r.step

C10_ResultsRetained ==
    OutcomeGiven => \A k \in DOMAIN results : Retained(results[k])

\* C11: a run rejected for an undeclared or circular dependency has no side
\* effect: no step started, no result, no context entry, and the output
\* directory is as it was before the run.
C11_RejectedNoSideEffects ==
    (pc = "done" /\ outcome.reason = "dependency") =>
        /\ started = <<>>
        /\ results = <<>>
        /\ DOMAIN run_context.steps = {}
        /\ work_dir.now = work_dir.before

\* The status of a run, read off what happened: Pending before run_case /
\* runtest is entered, Running until it is left, then Completed when every
\* step returned a result and none without continue_on_failure failed,
\* Aborted otherwise.
RunCompleted ==
    /\ pc = "done"
    /\ \A n \in Names : \E k \in DOMAIN results : results[k].step = n
    /\ ~\E r \in FailedResults : ~Cof(r.step)
Status ==
    IF pc = "pending" THEN "Pending"
    ELSE IF pc # "done" THEN "Running"
    ELSE IF RunCompleted THEN "Completed" ELSE "Aborted"
StatusMoves ==
    {<<"Pending", "Running">>, <<"Running", "Running">>,
     <<"Running", "Completed">>, <<"Running", "Aborted">>}

\* C12: the status only moves Pending -> Running -> Completed | Aborted;
\* after Completed or Aborted nothing is executed or committed; and the
\* outcome tells the two apart: a completed run ends without a step error
\* (successfully, when the case has no validations), an aborted run ends
\* unsuccessfully with its reason.
C12_StatusMachine ==
    /\ [][ /\ <<Status, Status'>> \in StatusMoves
           /\ pc = "done" => UNCHANGED <<run_context, started, results>> ]_vars
    /\ [](pc = "done" =>
            /\ RunCompleted <=> (outcome.reason \in {None, "case_validation"}
                                 /\ outcome.kind # "exception")
            /\ (RunCompleted /\ ~case.validation) => outcome.success
            /\ ~RunCompleted => ~outcome.success)

C12_Witness ==
    /\ RunCompleted
    /\ outcome.success
    /\ \E r \in FailedResults : Cof(r.step)
    /\ Len(graph.execution_order) >= 2

\* C13: the steps map of the execution context is append-only and write-once:
\* an entry is never changed or removed once it exists, and an entry steps[k]
\* only comes into existence when step k has returned a result.
C13_WriteOnce ==
    [][ /\ \A k \in DOMAIN run_context.steps :
              /\ k \in DOMAIN run_context'.steps
              /\ run_context'.steps[k] = run_context.steps[k]
        /\ \A k \in (DOMAIN run_context'.steps) \ (DOMAIN run_context.steps) :
              \E j \in DOMAIN results' : results'[j].step = k ]_vars

MaxOf(S) == CHOOSE x \in S : \A y \in S : y <= x

\* The linear chain s1 <- s2 <- s3 and the fan-in (s1, s2) <- s3.
ChainInput ==
    /\ DeclaredDeps(StepNames[1]) = {}
    /\ DeclaredDeps(StepNames[2]) = {StepNames[1]}
    /\ DeclaredDeps(StepNames[3]) = {StepNames[2]}
FanInInput ==
    /\ DeclaredDeps(StepNames[1]) = {}
    /\ DeclaredDeps(StepNames[2]) = {}
    /\ DeclaredDeps(StepNames[3]) = {StepNames[1], StepNames[2]}

Pos(n) == CHOOSE i \in DOMAIN Steps : Steps[i].name = n
NamesInListOrder == [i \in DOMAIN Steps |-> Steps[i].name]
LevelInListOrder(order, l) ==
    SelectSeq(NamesInListOrder, LAMBDA n : n \in Range(order[l]))

\* C15: execution_order is determined by the ordered step list: each level
\* lists its names in the order the step list has them (so two builds of one
\* step list cannot differ).
C15_InsertionOrder ==
    ExtractReturned =>
        \A l \in DOMAIN graph.execution_order :
            /\ graph.execution_order[l] = LevelInListOrder(graph.execution_order, l)
            /\ \A i, j \in DOMAIN graph.execution_order[l] :
                  i < j => Pos(graph.execution_order[l][i]) < Pos(graph.execution_order[l][j])

C15_Witness ==
    /\ ExtractReturned
    /\ \E l \in DOMAIN graph.execution_order :
          /\ Len(graph.execution_order[l]) >= 2
          /\ graph.execution_order[l][1] = StepNames[3]
          /\ graph.execution_order[l][2] = StepNames[1]

EdgeCount(d, n) == Cardinality({k \in DOMAIN graph.edges : graph.edges[k] = <<d, n>>})

\* C16: the dependencies of a node are the step's depends_on names together
\* with the names its parameter templates reference; each of them gives one
\* edge (dependency, step), however often it is named, and edges holds no
\* other pair.
C16_DepsAndEdges ==
    ExtractReturned =>
        \A i \in DOMAIN Steps :
            LET n == Steps[i].name IN
            /\ graph.nodes[n] = Steps[i].depends_on \cup TreeRefs(Steps[i])
            /\ \A d \in Targets :
                  EdgeCount(d, n) = IF d \in graph.nodes[n] THEN 1 ELSE 0

\* C17: a step whose command exits with status 0 but whose tool validation
\* is unsuccessful is a failed step: unless it has continue_on_failure the
\* run ends right there, unsuccessfully, naming that step.
C17_ValidationFailureAborts ==
    \A k \in DOMAIN results :
        (results[k].returncode = 0 /\ ~results[k].valid /\ ~Cof(results[k].step)) =>
            /\ k = Len(results)
            /\ pc = "done"
            /\ ~outcome.success
            /\ outcome.reason = "step_failed"
            /\ outcome.step = results[k].step

\* C18: a run that ends on a step's timeout ends as on any other step
\* failure: a failing result is recorded for the step, the step has no
\* continue_on_failure, and the run hands its caller the outcome of an abort.
C18_TimeoutIsStepFailure ==
    (pc = "done" /\ outcome.reason = "timeout") =>
        /\ OutcomeGiven
        /\ \E r \in FailedResults : r.step = outcome.step
        /\ ~Cof(outcome.step)

\* C19: a run that ends on a step's rendering failure ends as an abort: the
\* step has no continue_on_failure (with it the run goes on), its command was
\* not executed, and the run hands its caller an outcome naming the step.
C19_RenderFailureLocal ==
    (pc = "done" /\ outcome.reason = "render") =>
        /\ OutcomeGiven
        /\ ~Cof(outcome.step)
        /\ ~\E k \in DOMAIN results : results[k].step = outcome.step

\* C20: when a step's parameters have been rendered, every slot steps.<x>
\* the rendering read is that of a step of a strictly earlier level whose
\* result has been committed; and only the slot of the step that just
\* finished is written.
C20_ReadsEarlierLevels ==
    /\ pc = "executing" =>
          LET n == CurName(Order, cur) IN
          \A x \in RenderReads(StepOf(n)) :
              /\ x \in Names
              /\ LevelOf(x) < LevelOf(n)
              /\ x \in Committed
              /\ \E k \in DOMAIN results : results[k].step = x
    /\ \A k \in DOMAIN results : results[k].step \in Committed

(***************************************************************************)
(* Parameter assembly of one step (run_case and runtest, before rendering). *)
(***************************************************************************)
MaxParamKeys == 2
ParamKeys == 1 .. MaxParamKeys
ParamValues == {"a", "b"}
\* dicts with keys among K and values among V.
Dicts(K, V) == UNION {[S -> V] : S \in SUBSET K}

\* for k, v in scenario.default_params.items(): if k not in params: params[k] = v
FillDefaultsOverwrite(params, defaults) ==
    [k \in DOMAIN params \cup DOMAIN defaults |->
        IF k \in DOMAIN defaults THEN defaults[k] ELSE params[k]]
FillDefaults(params, defaults) ==
    [k \in DOMAIN params \cup DOMAIN defaults |->
        IF k \in DOMAIN params THEN params[k] ELSE defaults[k]]

\* if case.params and step.name in case.params:
\*     params.update(case.params[step.name])
ApplyOverrides(params, case_params, name) ==
    IF name \in DOMAIN case_params
    THEN [k \in DOMAIN params \cup DOMAIN case_params[name] |->
             IF k \in DOMAIN case_params[name] THEN case_params[name][k] ELSE params[k]]
    ELSE params

\* params = step.params.copy(); defaults; overrides.
AssembleParams(step, default_params, case_params) ==
    ApplyOverrides(FillDefaults(step.params, default_params), case_params, step.name)

InitParams ==
    /\ \E sp \in Dicts(ParamKeys, ParamValues) : \E dp \in Dicts(ParamKeys, ParamValues) :
          scenario = [steps |-> <<[name |-> StepNames[1], params |-> sp]>>,
                      default_params |-> dp]
    /\ \E own \in Dicts({StepNames[1]}, Dicts(ParamKeys, ParamValues)) :
       \E other \in Dicts({StepNames[2]}, {[k \in {1} |-> "b"]}) :
          case = [params |-> [n \in DOMAIN own \cup DOMAIN other |->
                                 IF n \in DOMAIN own THEN own[n] ELSE other[n]]]
    /\ impl \in {"runner", "plugin"}
    /\ pc = "params"
    /\ work_dir = [before |-> "absent", now |-> "absent"]
    /\ InitRest

\* The step's parameter set as it is handed to _render_parameters.
DoAssemble ==
    /\ pc = "params"
    /\ run_context' = [steps |-> EmptyMap,
                       params |-> AssembleParams(scenario.steps[1], scenario.default_params,
                                                 case.params)]
    /\ pc' = "assembled"
    /\ UNCHANGED <<scenario, case, impl, graph, errors, cur, started, results,
                   summary, outcome, work_dir,
                   registry, call, case_file, file_results>>

NextParams == DoAssemble

SpecParams == InitParams /\ [][NextParams]_vars

\* The sources of the step whose parameters are assembled.
OwnParams == scenario.steps[1].params
Overrides ==
    IF scenario.steps[1].name \in DOMAIN case.params
    THEN case.params[scenario.steps[1].name] ELSE EmptyMap

\* C21: the parameter set handed to rendering holds, for every key, the
\* case's per-step override if there is one, otherwise the step's own value,
\* otherwise the scenario default; it has no other key, and the overrides of
\* another step do not reach it.
C21_OverridePrecedence ==
    pc = "assembled" =>
        /\ DOMAIN run_context.params =
              DOMAIN Overrides \cup DOMAIN OwnParams \cup DOMAIN scenario.default_params
        /\ \A k \in DOMAIN run_context.params :
              run_context.params[k] =
                  IF k \in DOMAIN Overrides THEN Overrides[k]
                  ELSE IF k \in DOMAIN OwnParams THEN OwnParams[k]
                  ELSE scenario.default_params[k]

C21_Witness ==
    /\ pc = "assembled"
    /\ 1 \in DOMAIN Overrides /\ 1 \in DOMAIN OwnParams /\ 1 \in DOMAIN scenario.default_params
    /\ Overrides[1] = "a" /\ OwnParams[1] = "b" /\ scenario.default_params[1] = "b"
    /\ 2 \notin DOMAIN Overrides /\ 2 \in DOMAIN OwnParams /\ 2 \in DOMAIN scenario.default_params
    /\ OwnParams[2] = "a" /\ scenario.default_params[2] = "b"
    /\ run_context.params = [k \in ParamKeys |-> "a"]

(***************************************************************************)
(* The six-step scenario of test_complex_dependency_scenario.              *)
(***************************************************************************)
SixNames == <<"init", "setup_a", "setup_b", "process_a", "process_b", "merge">>
SixRefs ==
    [n \in Range(SixNames) |->
        CASE n = "process_a" -> {"init", "setup_a"}
          [] n = "process_b" -> {"init", "setup_b"}
          [] n = "merge"     -> {"process_a", "process_b"}
          [] OTHER           -> {}]
SixOrders ==
    {o \in [DOMAIN SixNames -> DOMAIN SixNames] :
        \A i, j \in DOMAIN SixNames : i # j => o[i] # o[j]}
\* The steps listed in the order ord, every reference a top-level string
\* parameter.
SixSteps(ord) ==
    [i \in DOMAIN SixNames |->
        [name |-> SixNames[ord[i]],
         tool |-> "echo",
         depends_on |-> {},
         params |-> {[kind |-> "str", ref |-> r] : r \in SixRefs[SixNames[ord[i]]]},
         continue_on_failure |-> FALSE]]

InitSix ==
    /\ \E ord \in SixOrders : scenario = [steps |-> SixSteps(ord)]
    /\ case = [validation |-> FALSE, steps_key |-> FALSE]
    /\ impl = "resolver"
    /\ pc = "loaded"
    /\ work_dir = [before |-> "absent", now |-> "absent"]
    /\ InitRest

SpecSix == InitSix /\ [][NextResolve]_vars

LoopStart(steps) ==
    [ok |-> FALSE, nodes |-> NodeDeps(steps), keys |-> NodeKeys(steps), edges |-> <<>>,
     execution_order |-> <<>>, leveled |-> <<>>, processed |-> {},
     error |-> [kind |-> None, steps |-> {}]]

InitLevel ==
    /\ \E D \in SubsetsUpTo(Decls, MaxRefs) : scenario = [steps |-> MkSteps(D, {}, None)]
    /\ case = [validation |-> FALSE, steps_key |-> FALSE]
    /\ impl = "resolver"
    /\ pc = "leveling"
    /\ work_dir = [before |-> "absent", now |-> "absent"]
    /\ graph = LoopStart(scenario.steps)
    /\ InitIdle
    /\ errors = {}
    /\ run_context = [steps |-> EmptyMap]
    /\ cur = [l |-> 0, i |-> 0]
    /\ started = <<>>
    /\ results = <<>>
    /\ summary = NoSummary
    /\ outcome = NoOutcome

\* One pass of the loop body: collect the ready steps, raise when there is
\* none, otherwise append the level and prune the remaining dependencies.
LevelIter ==
    /\ pc = "leveling"
    /\ graph.keys # <<>>
    /\ LET ready == ReadySteps(graph.keys, graph.nodes) IN
       IF ready = <<>>
       THEN /\ graph' = [graph EXCEPT
                            !.error = [kind |-> "circular",
                                       steps |-> Range(RemainingSteps(graph.keys,
                                                                      NodeKeys(scenario.steps)))]]
            /\ pc' = "raised"
       ELSE LET processed2 == graph.processed \cup Range(ready)
                keys2 == DropReady(graph.keys, ready)
            IN  /\ graph' = [graph EXCEPT
                                !.leveled = AppendLevel(graph.leveled, ready),
                                !.processed = processed2,
                                !.keys = keys2,
                                !.nodes = PruneDeps(graph.nodes, keys2, processed2)]
                /\ pc' = "leveling"
    /\ UNCHANGED <<scenario, case, impl, errors, run_context, cur, started, results,
                   summary, outcome, work_dir,
                   registry, call, case_file, file_results>>

\* remaining_deps is empty: return execution_order.
LevelReturn ==
    /\ pc = "leveling"
    /\ graph.keys = <<>>
    /\ graph' = [graph EXCEPT !.ok = TRUE, !.execution_order = graph.leveled]
    /\ pc' = "returned"
    /\ UNCHANGED <<scenario, case, impl, errors, run_context, cur, started, results,
                   summary, outcome, work_dir,
                   registry, call, case_file, file_results>>

NextLevel == LevelIter \/ LevelReturn

SpecLevel == InitLevel /\ [][NextLevel]_vars /\ WF_vars(NextLevel)

\* C23: leveling terminates on every node map: a pass of the loop that does
\* not raise puts at least one further node into a new level, so the loop
\* ends; it ends either returning an order that holds every node once
\* (exactly when the map is acyclic and names no unknown step) or raising,
\* and nothing is returned when it raises.
C23_LevelingTerminates ==
    /\ [][ (pc = "leveling" /\ pc' = "leveling") =>
              /\ Len(graph'.keys) < Len(graph.keys)
              /\ Len(graph'.leveled) = Len(graph.leveled) + 1
              /\ graph'.leveled[Len(graph'.leveled)] # <<>>
              /\ Range(graph'.keys) \cup Leveled(graph'.leveled) = Names ]_vars
    /\ [](pc = "returned" =>
              /\ Leveled(graph.execution_order) = Names
              /\ \A n \in Names : Cardinality(Occurrences(graph.execution_order, n)) = 1
              /\ AllDeclared /\ ~HasCycle)
    /\ [](pc = "raised" =>
              /\ graph.execution_order = <<>>
              /\ ~graph.ok
              /\ HasCycle \/ ~AllDeclared)
    /\ <>(pc \in {"returned", "raised"})

C23_Witness ==
    /\ pc = "raised"
    /\ Len(graph.leveled) = 1
    /\ ~AllDeclared
    /\ ~HasCycle

(***************************************************************************)
(* tool_registry.py: ToolRegistry and the availability caches.             *)
(***************************************************************************)
RegNames == {"n1", "n2"}
\* Tools of one name differ in their command template.
CommandTemplates == {"c1", "c2"}
\* What find_executable and the version check of an adapter come to.
Probes == {"ok", "not found"}

\* ToolAvailability records.
AdapterAvailability(n, probe) ==
    [name |-> n, available |-> probe = "ok",
     path |-> IF probe = "ok" THEN "path" ELSE None,
     error_message |-> IF probe = "ok" THEN None ELSE probe]
ToolAvailable(n) ==
    [name |-> n, available |-> TRUE, path |-> None, error_message |-> None]
\* No ToolAvailability: None.
NoAvailability ==
    [name |-> None, available |-> FALSE, path |-> None, error_message |-> None]
NotRegistered(n) ==
    [name |-> n, available |-> FALSE, path |-> None, error_message |-> "not registered"]

\* dict helpers: d[k] = v and del d[k].
Put(d, k, v) == [x \in DOMAIN d \cup {k} |-> IF x = k THEN v ELSE d[x]]
Del(d, k) == [x \in DOMAIN d \ {k} |-> d[x]]
Get(d, k) == IF k \in DOMAIN d THEN d[k] ELSE None
GetAvailability(d, k) == IF k \in DOMAIN d THEN d[k] ELSE NoAvailability

\* register_tool
RegisterToolOverwrite(reg, n, template) ==
    [registry |-> [reg EXCEPT !.tools = Put(reg.tools, n, template),
                              !.tool_availability_cache = Del(reg.tool_availability_cache, n)],
     raised |-> None,
     dropped |-> GetAvailability(reg.tool_availability_cache, n)]
RegisterTool(reg, n, template) ==
    IF n \in DOMAIN reg.tools
    THEN [registry |-> reg, raised |-> "ValueError", dropped |-> NoAvailability]
    ELSE [registry |-> [reg EXCEPT !.tools = Put(reg.tools, n, template),
                                   !.tool_availability_cache =
                                       Del(reg.tool_availability_cache, n)],
          raised |-> None,
          dropped |-> GetAvailability(reg.tool_availability_cache, n)]

\* register_real_tool_adapter; the adapter object of name n is the value.
RegisterRealToolAdapterKeepCache(reg, n) ==
    [registry |-> [reg EXCEPT !.real_tool_adapters = Put(reg.real_tool_adapters, n, n)],
     raised |-> None,
     dropped |-> NoAvailability]
RegisterRealToolAdapter(reg, n) ==
    [registry |-> [reg EXCEPT !.real_tool_adapters = Put(reg.real_tool_adapters, n, n),
                              !.tool_availability_cache =
                                  Del(reg.tool_availability_cache, n)],
     raised |-> None,
     dropped |-> GetAvailability(reg.tool_availability_cache, n)]

\* get_tool
GetTool(reg, n) == Get(reg.tools, n)

\* RealToolAdapter.check_availability on the adapter object n.
CheckAvailability(cached, n, force_refresh, probe) ==
    IF cached # NoAvailability /\ ~force_refresh
    THEN [cached |-> cached, result |-> cached, checked |-> FALSE]
    ELSE [cached |-> AdapterAvailability(n, probe),
          result |-> AdapterAvailability(n, probe), checked |-> TRUE]

\* validate_tool_availability
ValidateToolAvailabilityNoCache(reg, n, force_refresh, probe) ==
    IF n \in DOMAIN reg.real_tool_adapters
    THEN LET a == reg.real_tool_adapters[n]
             c == CheckAvailability(reg.cached_availability[a], a, TRUE, probe)
         IN  [registry |-> [reg EXCEPT !.cached_availability[a] = c.cached,
                                       !.tool_availability_cache =
                                           Put(reg.tool_availability_cache, n, c.result)],
              result |-> c.result, checked |-> c.checked, hit |-> FALSE]
    ELSE [registry |-> reg, result |-> NotRegistered(n), checked |-> FALSE, hit |-> FALSE]
ValidateToolAvailability(reg, n, force_refresh, probe) ==
    IF ~force_refresh /\ n \in DOMAIN reg.tool_availability_cache
    THEN [registry |-> reg, result |-> reg.tool_availability_cache[n],
          checked |-> FALSE, hit |-> TRUE]
    ELSE IF n \in DOMAIN reg.real_tool_adapters
    THEN LET a == reg.real_tool_adapters[n]
             c == CheckAvailability(reg.cached_availability[a], a, force_refresh, probe)
         IN  [registry |-> [reg EXCEPT !.cached_availability[a] = c.cached,
                                       !.tool_availability_cache =
                                           Put(reg.tool_availability_cache, n, c.result)],
              result |-> c.result, checked |-> c.checked, hit |-> FALSE]
    ELSE IF n \in DOMAIN reg.tools
    THEN [registry |-> [reg EXCEPT !.tool_availability_cache =
                                       Put(reg.tool_availability_cache, n, ToolAvailable(n))],
          result |-> ToolAvailable(n), checked |-> FALSE, hit |-> FALSE]
    ELSE [registry |-> [reg EXCEPT !.tool_availability_cache =
                                       Put(reg.tool_availability_cache, n, NotRegistered(n))],
          result |-> NotRegistered(n), checked |-> FALSE, hit |-> FALSE]

\* clear_availability_cache
ClearAvailabilityCache(reg) ==
    [reg EXCEPT !.tool_availability_cache = EmptyMap,
                !.cached_availability =
                    [a \in DOMAIN reg.cached_availability |->
                        IF a \in Range(reg.real_tool_adapters) THEN NoAvailability
                        ELSE reg.cached_availability[a]]]

InitRegistry ==
    /\ registry = [tools |-> EmptyMap, real_tool_adapters |-> EmptyMap,
                   tool_availability_cache |-> EmptyMap,
                   cached_availability |-> [a \in RegNames |-> NoAvailability]]
    /\ call = NoCall
    /\ case_file = NoCaseFile
    /\ file_results = <<>>
    /\ scenario = [steps |-> <<>>]
    /\ case = [validation |-> FALSE, steps_key |-> FALSE]
    /\ impl = "registry"
    /\ pc = "registry"
    /\ work_dir = [before |-> "absent", now |-> "absent"]
    /\ graph = NoGraph
    /\ errors = {}
    /\ run_context = [steps |-> EmptyMap]
    /\ cur = [l |-> 0, i |-> 0]
    /\ started = <<>>
    /\ results = <<>>
    /\ summary = NoSummary
    /\ outcome = NoOutcome

RegistryIdle ==
    UNCHANGED <<scenario, case, impl, pc, graph, errors, run_context, cur, started,
                results, summary, outcome, work_dir, case_file, file_results>>

CallRegisterTool ==
    /\ \E n \in RegNames : \E template \in CommandTemplates :
          LET r == RegisterTool(registry, n, template) IN
          /\ registry' = r.registry
          /\ call' = [op |-> "register_tool", name |-> n, tool |-> template,
                      force_refresh |-> FALSE, result |-> NoAvailability, raised |-> r.raised,
                      checked |-> FALSE, hit |-> FALSE, dropped |-> r.dropped]
    /\ RegistryIdle

CallRegisterAdapter ==
    /\ \E n \in RegNames :
          LET r == RegisterRealToolAdapter(registry, n) IN
          /\ registry' = r.registry
          /\ call' = [op |-> "register_real_tool_adapter", name |-> n, tool |-> None,
                      force_refresh |-> FALSE, result |-> NoAvailability, raised |-> r.raised,
                      checked |-> FALSE, hit |-> FALSE, dropped |-> r.dropped]
    /\ RegistryIdle

CallValidateAvailability ==
    /\ \E n \in RegNames : \E force_refresh \in BOOLEAN : \E probe \in Probes :
          LET r == ValidateToolAvailability(registry, n, force_refresh, probe) IN
          /\ registry' = r.registry
          /\ call' = [op |-> "validate_tool_availability", name |-> n, tool |-> None,
                      force_refresh |-> force_refresh, result |-> r.result, raised |-> None,
                      checked |-> r.checked, hit |-> r.hit, dropped |-> NoAvailability]
    /\ RegistryIdle

CallClearCache ==
    /\ registry' = ClearAvailabilityCache(registry)
    /\ call' = [op |-> "clear_availability_cache", name |-> None, tool |-> None,
                force_refresh |-> FALSE, result |-> NoAvailability, raised |-> None,
                checked |-> FALSE, hit |-> FALSE, dropped |-> NoAvailability]
    /\ RegistryIdle

NextRegistry ==
    CallRegisterTool \/ CallRegisterAdapter \/ CallValidateAvailability \/ CallClearCache

SpecRegistry == InitRegistry /\ [][NextRegistry]_vars

Cache == registry.tool_availability_cache
Registered == DOMAIN registry.tools \cup DOMAIN registry.real_tool_adapters

\* C24: register_tool for a name that already has a tool raises ValueError
\* and changes nothing: get_tool still gives the first tool and the
\* availability cache is as before. (For a new name it registers the tool.)
C24_DuplicateRejected ==
    [][ call'.op = "register_tool" =>
          IF call'.name \in DOMAIN registry.tools
          THEN /\ call'.raised = "ValueError"
               /\ GetTool(registry', call'.name) = GetTool(registry, call'.name)
               /\ registry'.tool_availability_cache = registry.tool_availability_cache
               /\ registry' = registry
          ELSE /\ call'.raised = None
               /\ GetTool(registry', call'.name) = call'.tool ]_vars

C24_Witness ==
    /\ call.op = "register_tool"
    /\ call.raised = "ValueError"
    /\ GetTool(registry, call.name) # call.tool
    /\ call.name \in DOMAIN Cache

\* C25: validate_tool_availability without force_refresh for a name with a
\* cache entry returns that entry and runs no availability check; a cache
\* entry goes away or changes only by force_refresh for that name, by
\* clear_availability_cache, or by a registration under that name; and
\* clear_availability_cache empties the cache and the cached availability of
\* every registered adapter.
C25_AvailabilityCached ==
    /\ [][ (call'.op = "validate_tool_availability" /\ ~call'.force_refresh
             /\ call'.name \in DOMAIN registry.tool_availability_cache) =>
              /\ call'.result = registry.tool_availability_cache[call'.name]
              /\ ~call'.checked
              /\ registry' = registry ]_vars
    /\ [][ \A n \in DOMAIN registry.tool_availability_cache :
              (n \notin DOMAIN registry'.tool_availability_cache
                  \/ registry'.tool_availability_cache[n]
                         # registry.tool_availability_cache[n]) =>
                 \/ call'.op = "clear_availability_cache"
                 \/ /\ call'.name = n
                    /\ \/ call'.op = "validate_tool_availability" /\ call'.force_refresh
                       \/ call'.op = "register_tool" /\ call'.raised = None
                       \/ call'.op = "register_real_tool_adapter" ]_vars
    /\ [][ call'.op = "clear_availability_cache" =>
              /\ registry'.tool_availability_cache = EmptyMap
              /\ \A n \in DOMAIN registry'.real_tool_adapters :
                    registry'.cached_availability[registry'.real_tool_adapters[n]]
                        = NoAvailability ]_vars

C25_Witness ==
    /\ call.op = "validate_tool_availability"
    /\ ~call.force_refresh
    /\ call.hit
    /\ call.name \in DOMAIN registry.real_tool_adapters
    /\ call.result.path # None
    /\ call.result = Cache[call.name]

\* C30: a name that is registered, as a tool or as an adapter, has no 'not
\* registered' result in the cache, so validate_tool_availability without
\* force_refresh never returns one for it.
C30_NoStaleNotRegistered ==
    /\ \A n \in Registered :
          n \in DOMAIN Cache => Cache[n].error_message # "not registered"
    /\ (call.op = "validate_tool_availability" /\ call.name \in Registered) =>
          call.result.error_message # "not registered"

C30_Witness ==
    /\ call.op \in {"register_tool", "register_real_tool_adapter"}
    /\ call.raised = None
    /\ call.dropped.error_message = "not registered"
    /\ call.name \in Registered
    /\ call.name \notin DOMAIN Cache

\* A step without continue_on_failure has returned a failing status.
FatalFailure == \E r \in FailedResults : ~Cof(r.step)

\* C26: after a step without continue_on_failure failed nothing else is
\* executed in the run: its result is the last result, it is the last step
\* started (no step of a later level and no later step of its own level),
\* the run is over, and from then on nothing is started, recorded or
\* committed.
C26_NothingAfterFailure ==
    /\ [](\A k \in DOMAIN results :
            (results[k].returncode # 0 /\ ~Cof(results[k].step)) =>
                /\ k = Len(results)
                /\ started[Len(started)] = results[k].step
                /\ pc = "done")
    /\ [][ FatalFailure => UNCHANGED <<started, results, run_context>> ]_vars

C26_Witness ==
    /\ FatalFailure
    /\ pc = "done"
    /\ \E t \in Names :
          /\ LevelOf(t) = LevelOf(outcome.step)
          /\ t \notin Started
    /\ \E t \in Started : t # outcome.step /\ LevelOf(t) = LevelOf(outcome.step)

\* The Step record a started name stands for: the first of that name.
RecordOf(n) ==
    CHOOSE i \in DOMAIN Steps :
        /\ Steps[i].name = n
        /\ \A j \in DOMAIN Steps : Steps[j].name = n => i <= j
TimesExecuted(i) == Cardinality({k \in DOMAIN started : RecordOf(started[k]) = i})
NotAborted ==
    /\ OutcomeGiven
    /\ outcome.reason \in {None, "case_validation"}

\* C27: no Step record of the step list is executed more than once, and in
\* a run that is not aborted every Step record is executed exactly once.
C27_EachRecordOnce ==
    /\ \A i \in DOMAIN Steps : TimesExecuted(i) <= 1
    /\ NotAborted => \A i \in DOMAIN Steps : TimesExecuted(i) = 1

\* C28: at every point of a run the keys of the context's steps map are the
\* steps of this run that have returned a result (so the map is empty until
\* the first step has finished, whatever default_params and case params
\* hold).
C28_StepsMapIsCompleted ==
    DOMAIN run_context.steps = {results[k].step : k \in DOMAIN results}

(***************************************************************************)
(* runner.run_case_file: the loop over the regular cases of a case file.   *)
(***************************************************************************)
MaxCases == 3
\* What run_case comes to for a case: it returns a successful or a failed
\* CaseRunResult, or one of its steps raises (rendering, post_exec output
\* resolution, subprocess timeout) and the exception leaves run_case.
CaseBehaviours == {"success", "failure", "render", "post_exec", "timeout"}
CaseErrors == {"render", "post_exec", "timeout"}
RunCase(behaviour) ==
    IF behaviour \in CaseErrors THEN Raised(behaviour, None)
    ELSE Result(behaviour = "success", IF behaviour = "success" THEN None ELSE "step_failed",
                None)

InitFile ==
    /\ \E n \in 1 .. MaxCases : \E cs \in [1 .. n -> CaseBehaviours] :
          case_file = [cases |-> cs]
    /\ file_results = <<>>
    /\ registry = NoRegistry
    /\ call = NoCall
    /\ scenario = [steps |-> <<>>]
    /\ case = [validation |-> FALSE, steps_key |-> FALSE]
    /\ impl = "runner"
    /\ pc = "file_loop"
    /\ work_dir = [before |-> "absent", now |-> "absent"]
    /\ graph = NoGraph
    /\ errors = {}
    /\ run_context = [steps |-> EmptyMap]
    /\ cur = [l |-> 0, i |-> 1]
    /\ started = <<>>
    /\ results = <<>>
    /\ summary = NoSummary
    /\ outcome = NoOutcome

FileIdle ==
    UNCHANGED <<scenario, case, impl, graph, errors, run_context, started, results,
                summary, work_dir, registry, call, case_file>>

\* for case in case_file_obj.cases: results.append(run_case(case, ...))
RunNextCase ==
    /\ pc = "file_loop"
    /\ cur.i <= Len(case_file.cases)
    /\ LET r == RunCase(case_file.cases[cur.i]) IN
       IF r.kind = "exception"
       THEN /\ outcome' = r
            /\ pc' = "file_raised"
            /\ UNCHANGED <<file_results, cur>>
       ELSE /\ file_results' = Append(file_results, [case |-> cur.i, success |-> r.success])
            /\ cur' = [cur EXCEPT !.i = cur.i + 1]
            /\ UNCHANGED <<outcome, pc>>
    /\ FileIdle

\* failures = [...]; return results, (0 if not failures else 1)
ReturnResults ==
    /\ pc = "file_loop"
    /\ cur.i > Len(case_file.cases)
    /\ outcome' = Result(\A k \in DOMAIN file_results : file_results[k].success, None, None)
    /\ pc' = "file_returned"
    /\ UNCHANGED <<file_results, cur>>
    /\ FileIdle

NextFile == RunNextCase \/ ReturnResults

SpecFile == InitFile /\ [][NextFile]_vars

\* C29: run_case_file ends by returning, with one result per regular case
\* of the file, in order; a case with a per-step error (rendering,
\* post_exec, timeout) has a failed result and the cases after it have
\* theirs.
C29_OneResultPerCase ==
    (pc \in {"file_returned", "file_raised"}) =>
        /\ pc = "file_returned"
        /\ Len(file_results) = Len(case_file.cases)
        /\ \A i \in DOMAIN file_results :
              /\ file_results[i].case = i
              /\ case_file.cases[i] \in CaseErrors => ~file_results[i].success

====
